---- MODULE Spec2Model ----
(***************************************************************************)
(* Model of the ephemeris service: the pydantic data model                 *)
(* (models/astronomical.py), the chart orchestration service               *)
(* (services/kerykeion_service.py) and the two HTTP routers                *)
(* (routes/birth_chart.py and api/endpoints.py).                           *)
(*                                                                         *)
(* Angles are fixed-point numbers: one unit is one degree.  Geographic     *)
(* coordinates are carried as opaque scaled integers (1e-4 degree).        *)
(***************************************************************************)
EXTENDS Integers, Sequences, FiniteSets, TLC

VARIABLES
    variant,     \* which router module is deployed: "routes" or "endpoints"
    instances,   \* KerykeionService._instances: cache key -> subject
    lib,         \* the locations for which the library cannot build a subject
    resp,        \* the last request handled and the response it got
    probe,       \* an earlier birth-chart call, remembered for comparison
    dateIn,      \* the field values handed to the DateTime constructor
    dateOut,     \* what the DateTime constructor did with them
    cuspIn,      \* the house cusps the library reports for a subject
    houseOut,    \* the houses extracted from cuspIn
    subject,     \* what the library hands back: a subject or aspect records
    stage,       \* what the service made of subject
    tasks        \* the birth-chart requests in flight on the event loop

vars ==
    <<variant, instances, lib, resp, probe, dateIn, dateOut, cuspIn, houseOut,
      subject, stage, tasks>>

svcVars == <<variant, instances, lib, resp, probe>>
dateVars == <<dateIn, dateOut>>
houseVars == <<cuspIn, houseOut>>
stageVars == <<subject, stage>>

(***************************************************************************)
(* Data model: models/astronomical.py                                      *)
(***************************************************************************)
MinYear == 1900
MaxYear == 2100
Circle == 360

HouseSystem ==
    <<"PLACIDUS", "KOCH", "PORPHYRIUS", "REGIOMONTANUS", "CAMPANUS",
      "EQUAL", "WHOLE_SIGN", "MERIDIAN", "MORINUS", "TOPOCENTRIC">>

CelestialBody ==
    <<"SUN", "MOON", "MERCURY", "VENUS", "MARS", "JUPITER", "SATURN",
      "URANUS", "NEPTUNE", "PLUTO", "NORTH_NODE", "SOUTH_NODE", "CHIRON">>

Range(seq) == {seq[i] : i \in 1..Len(seq)}

\* Field(ge=lo, le=hi)
InClosed(v, lo, hi) == lo <= v /\ v <= hi

\* Field(ge=0, lt=360)
IsLongitude(v) == 0 <= v /\ v < Circle

\* is_leap of validate_day, with the century rule dropped
is_leap_no_century(year) == year % 4 = 0

\* validate_day: is_leap
is_leap(year) == year % 4 = 0 /\ (year % 100 # 0 \/ year % 400 = 0)

\* DateTime.validate_day(v, values): TRUE when it returns v, FALSE when it
\* raises ValueError.  values holds the fields validated before day that
\* passed their own validation.
validate_day(v, values) ==
    IF "month" \notin DOMAIN values
    THEN TRUE
    ELSE LET month == values["month"] IN
         IF month \in {4, 6, 9, 11} /\ v > 30
         THEN FALSE
         ELSE IF month = 2
              THEN LET year == IF "year" \in DOMAIN values
                               THEN values["year"] ELSE 2000 IN
                   IF is_leap(year) /\ v > 29 THEN FALSE
                   ELSE IF ~is_leap(year) /\ v > 28 THEN FALSE
                   ELSE TRUE
              ELSE TRUE

\* the fields of a DateTime that fail validation, in declaration order:
\* each Field constraint first, the day validator after day's constraint
DateTimeErrors(f) ==
    LET yearOk == InClosed(f.year, MinYear, MaxYear)
        monthOk == InClosed(f.month, 1, 12)
        values == [k \in {x \in {"year", "month"} :
                              (x = "year" /\ yearOk) \/ (x = "month" /\ monthOk)}
                     |-> IF k = "year" THEN f.year ELSE f.month]
        dayOk == InClosed(f.day, 1, 31) /\ validate_day(f.day, values)
    IN  (IF yearOk THEN {} ELSE {"year"})
        \cup (IF monthOk THEN {} ELSE {"month"})
        \cup (IF dayOk THEN {} ELSE {"day"})
        \cup (IF InClosed(f.hour, 0, 23) THEN {} ELSE {"hour"})
        \cup (IF InClosed(f.minute, 0, 59) THEN {} ELSE {"minute"})
        \cup (IF InClosed(f.second, 0, 59) THEN {} ELSE {"second"})

\* DateTime(**f): "ok", or "ValueError" (pydantic's ValidationError)
DateTimeConstruct(f) ==
    IF DateTimeErrors(f) = {} THEN "ok" ELSE "ValueError"

\* House(...): TRUE when the field constraints accept the values
HouseValid(h) ==
    /\ InClosed(h.number, 1, 12)
    /\ IsLongitude(h.cusp)
    /\ IsLongitude(h.next_cusp)
    /\ IsLongitude(h.longitude)
    /\ InClosed(h.latitude, -90, 90)
    /\ 0 <= h.size /\ h.size < Circle

(***************************************************************************)
(* The external library's object model, as the service reads it            *)
(***************************************************************************)
\* a KerykeionPointModel with the two attributes the service reads
Point(pos, retro) == [kind |-> "point", abs_pos |-> pos, retrograde |-> retro]

\* anything else an attribute of the subject may hold (None included)
NotAPoint == [kind |-> "other"]

\* a KerykeionPointModel whose retrograde is None
PointNoRetrograde(pos) == [kind |-> "point", abs_pos |-> pos]

\* isinstance(x, KerykeionPointModel)
IsPointModel(x) == x.kind = "point"

(***************************************************************************)
(* Python's datetime: proleptic Gregorian ordinals, as timedelta           *)
(* arithmetic and astimezone() compute them                                *)
(***************************************************************************)
PyIsLeap(y) == y % 4 = 0 /\ (y % 100 # 0 \/ y % 400 = 0)

PyDaysInMonth(y, m) ==
    IF m = 2 THEN (IF PyIsLeap(y) THEN 29 ELSE 28)
    ELSE IF m \in {4, 6, 9, 11} THEN 30 ELSE 31

PyDaysBeforeYear(y) ==
    (y - 1) * 365 + (y - 1) \div 4 - (y - 1) \div 100 + (y - 1) \div 400

\* _DAYS_BEFORE_MONTH, for a common year
PyDaysBeforeMonthTable == <<0, 31, 59, 90, 120, 151, 181, 212, 243, 273, 304, 334>>

\* _days_before_month(year, month)
PyDaysBeforeMonth(y, m) ==
    PyDaysBeforeMonthTable[m] + (IF m > 2 /\ PyIsLeap(y) THEN 1 ELSE 0)

\* datetime.toordinal()
PyToOrdinal(y, m, d) == PyDaysBeforeYear(y) + PyDaysBeforeMonth(y, m) + d

\* minutes since the start of day 0; the seconds ride along unchanged
\* because every offset of the zone table is whole minutes
PyToMinutes(dt) ==
    PyToOrdinal(dt.year, dt.month, dt.day) * 1440 + dt.hour * 60 + dt.minute

\* _ord2ymd(n): the 400-, 100-, 4- and 1-year cycles of the calendar
PyOrdToYmd(ord) ==
    LET n0 == ord - 1
        n400 == n0 \div 146097
        r400 == n0 % 146097
        n100 == r400 \div 36524
        r100 == r400 % 36524
        n4 == r100 \div 1461
        r4 == r100 % 1461
        n1 == r4 \div 365
        n == r4 % 365
        year == n400 * 400 + 1 + n100 * 100 + n4 * 4 + n1
        leapyear == n1 = 3 /\ (n4 # 24 \/ n100 = 3)
        guess == (n + 50) \div 32
        before == PyDaysBeforeMonthTable[guess]
                      + (IF guess > 2 /\ leapyear THEN 1 ELSE 0)
        month == IF before > n THEN guess - 1 ELSE guess
        preceding == PyDaysBeforeMonthTable[month]
                         + (IF month > 2 /\ leapyear THEN 1 ELSE 0)
    IN  IF n1 = 4 \/ n100 = 4
        THEN [year |-> year - 1, month |-> 12, day |-> 31]
        ELSE [year |-> year, month |-> month, day |-> n - preceding + 1]

\* the datetime that lies n minutes after the start of day 0
PyFromMinutes(n, second) ==
    LET ymd == PyOrdToYmd(n \div 1440)
    IN  [year |-> ymd.year, month |-> ymd.month, day |-> ymd.day,
         hour |-> (n % 1440) \div 60, minute |-> n % 60, second |-> second]

(***************************************************************************)
(* pytz: the zones of the model.  Offsets are minutes east of UTC.         *)
(* America/New_York observes daylight time in 2000 from 2 April 02:00 to   *)
(* 29 October 02:00 and none in 1900 or 2100 (pytz knows no transition     *)
(* after 2037); Asia/Tokyo and UTC never do.                               *)
(***************************************************************************)
KnownZones == {"UTC", "Asia/Tokyo", "America/New_York"}

UnknownZone == "Mars/Olympus"

\* wall-clock minutes of a local time within its year
WallMinutes(dt) ==
    ((PyDaysBeforeMonth(dt.year, dt.month) + dt.day) * 24 + dt.hour) * 60
        + dt.minute

\* the spring-forward gap of America/New_York: wall-clock times that never
\* happened
NonExistentLocal(zone, dt) ==
    /\ zone = "America/New_York"
    /\ dt.year = 2000 /\ dt.month = 4 /\ dt.day = 2 /\ dt.hour = 2

\* the fall-back hour of America/New_York: wall-clock times that happened
\* twice
AmbiguousLocal(zone, dt) ==
    /\ zone = "America/New_York"
    /\ dt.year = 2000 /\ dt.month = 10 /\ dt.day = 29 /\ dt.hour = 1

\* wall-clock times that are daylight time and nothing else
DaylightLocal(zone, dt) ==
    /\ zone = "America/New_York"
    /\ dt.year = 2000
    /\ WallMinutes(dt) >= WallMinutes([dt EXCEPT !.month = 4, !.day = 2,
                                                !.hour = 3, !.minute = 0])
    /\ WallMinutes(dt) < WallMinutes([dt EXCEPT !.month = 10, !.day = 29,
                                               !.hour = 1, !.minute = 0])

StandardOffset(zone) ==
    IF zone = "Asia/Tokyo" THEN 540
    ELSE IF zone = "America/New_York" THEN 0 - 300
    ELSE 0

\* tz.localize(dt) with its default is_dst=False: a wall-clock time in the
\* gap or in the repeated hour is given the standard-time offset, and no
\* error is raised
LocalizeOffset(zone, dt) ==
    IF DaylightLocal(zone, dt) THEN StandardOffset(zone) + 60
    ELSE StandardOffset(zone)

(***************************************************************************)
(* kerykeion: a subject is determined by the constructor's arguments, and  *)
(* everything read from it is a fixed function of them                     *)
(***************************************************************************)
\* AstrologicalSubject(year, month, day, hour, minute, lat, lng, tz_str)
SubjectArgs(dt, location) ==
    [year |-> dt.year, month |-> dt.month, day |-> dt.day, hour |-> dt.hour,
     minute |-> dt.minute, lat |-> location.latitude,
     lng |-> location.longitude, tz_str |-> dt.timezone]

LibSeed(s) ==
    (s.year + 31 * s.month + 7 * s.day + 15 * s.hour + s.minute
        + s.lat + s.lng) % Circle

LibAscendant(s) == LibSeed(s)
LibMediumCoeli(s) == (LibSeed(s) + 270) % Circle
LibDescendant(s) == (LibSeed(s) + 180) % Circle
LibImumCoeli(s) == (LibSeed(s) + 90) % Circle

\* first_house .. twelfth_house
LibHouseAttrs(s) ==
    LET seed == LibSeed(s)
    IN  [i \in 1..12 |-> Point((seed + 30 * (i - 1)) % Circle, FALSE)]

\* getattr(instance, body.value.lower(), None): the library has no
\* north_node or south_node attribute
LibBodyAttrs(s) ==
    LET seed == LibSeed(s)
    IN  [k \in 1..Len(CelestialBody) |->
            IF CelestialBody[k] \in {"NORTH_NODE", "SOUTH_NODE"}
            THEN NotAPoint
            ELSE Point((seed * k + 29 * k) % Circle, (seed + k) % 5 = 0)]

\* NatalAspects(instance).relevant_aspects; orbit is signed, in 1/100 degree
LibNatalAspects(s) ==
    << [p1_name |-> "Sun", p2_name |-> "Moon", aspect |-> "trine",
        orbit |-> (LibSeed(s) % 7) * 50 - 150],
       [p1_name |-> "Moon", p2_name |-> "Mean_Node", aspect |-> "square",
        orbit |-> 20],
       [p1_name |-> "Mars", p2_name |-> "Pluto", aspect |-> "sextile",
        orbit |-> 100 - (LibSeed(s) % 3) * 100] >>

\* SynastryAspects(transit, natal, active_aspects).relevant_aspects; the
\* records are whatever the library reports, within the tolerance or not
LibSynastryAspects(t, n, orb) ==
    << [p1_name |-> "Sun", p2_name |-> "Moon", aspect |-> "conjunction",
        orbit |-> ((LibSeed(t) + LibSeed(n)) % 5) * 5 - 10],
       [p1_name |-> "True_Node", p2_name |-> "Sun", aspect |-> "trine",
        orbit |-> 5],
       [p1_name |-> "Saturn", p2_name |-> "Venus", aspect |-> "square",
        orbit |-> (LibSeed(t) % 4) * 40 - 60] >>

\* the subject built from the arguments s, as the service reads it: the
\* four angles, the body and house attributes, and what NatalAspects finds
Subject(s) ==
    [ascendant |-> Point(LibAscendant(s), FALSE),
     medium_coeli |-> Point(LibMediumCoeli(s), FALSE),
     descendant |-> Point(LibDescendant(s), FALSE),
     imum_coeli |-> Point(LibImumCoeli(s), FALSE),
     bodies |-> LibBodyAttrs(s),
     houses |-> LibHouseAttrs(s),
     natal |-> [ok |-> TRUE, relevant_aspects |-> LibNatalAspects(s)]]

(***************************************************************************)
(* Chart orchestration service: services/kerykeion_service.py              *)
(***************************************************************************)
\* _get_house_rulers: the traditional rulership table
rulers ==
    << <<"MARS">>, <<"VENUS">>, <<"MERCURY">>, <<"MOON">>, <<"SUN">>,
       <<"MERCURY">>, <<"VENUS">>, <<"PLUTO">>, <<"JUPITER">>,
       <<"SATURN">>, <<"URANUS">>, <<"NEPTUNE">> >>

\* _get_house_rulers: rulers.get(house_number, [])
_get_house_rulers(house_number) ==
    IF house_number \in DOMAIN rulers THEN rulers[house_number] ELSE <<>>

\* _calculate_house_size taking the plain difference of the two cusps
house_size_no_wrap(cusp1, cusp2) == cusp2 - cusp1

\* _calculate_house_size taking the distance between the two cusps
house_size_abs(cusp1, cusp2) ==
    IF cusp2 < cusp1 THEN cusp1 - cusp2 ELSE cusp2 - cusp1

\* _calculate_house_size
_calculate_house_size(cusp1, cusp2) ==
    IF cusp2 < cusp1 THEN (cusp2 + Circle) - cusp1 ELSE cusp2 - cusp1

\* the House of the loop body with its own cusp taken as the next cusp
house_record_next_is_own(i, house, next_house) ==
    [number |-> i,
     cusp |-> house.abs_pos,
     next_cusp |-> house.abs_pos,
     longitude |-> house.abs_pos,
     latitude |-> 0,
     size |-> _calculate_house_size(house.abs_pos, next_house.abs_pos),
     ruler_ids |-> _get_house_rulers(i)]

\* the House the loop body builds for house i, before validation
HouseRecord(i, house, next_house) ==
    [number |-> i,
     cusp |-> house.abs_pos,
     next_cusp |-> next_house.abs_pos,
     longitude |-> house.abs_pos,
     latitude |-> 0,
     size |-> _calculate_house_size(house.abs_pos, next_house.abs_pos),
     ruler_ids |-> _get_house_rulers(i)]

\* the houses loop of calculate_birth_chart leaving the loop at the first
\* house it cannot build
RECURSIVE houses_from_abort(_, _)
houses_from_abort(house_attrs, i) ==
    IF i > 12
    THEN <<>>
    ELSE LET house == house_attrs[i]
             next_house == IF i < 12 THEN house_attrs[i + 1] ELSE house_attrs[1]
             rest == houses_from_abort(house_attrs, i + 1)
             house_obj == HouseRecord(i, house, next_house)
         IN  IF ~IsPointModel(house) THEN <<>>
             ELSE IF ~IsPointModel(next_house) THEN <<>>
             ELSE IF ~HouseValid(house_obj) THEN <<>>
             ELSE <<house_obj>> \o rest

\* the houses loop of calculate_birth_chart over house_attrs[from..12]:
\* a house is skipped when it or its successor is no point model, or when
\* House(...) raises
RECURSIVE HousesFrom(_, _)
HousesFrom(house_attrs, i) ==
    IF i > 12
    THEN <<>>
    ELSE LET house == house_attrs[i]
             next_house == IF i < 12 THEN house_attrs[i + 1] ELSE house_attrs[1]
             rest == HousesFrom(house_attrs, i + 1)
             house_obj == HouseRecord(i, house, next_house)
         IN  IF ~IsPointModel(house) THEN rest
             ELSE IF ~IsPointModel(next_house) THEN rest
             ELSE IF ~HouseValid(house_obj) THEN rest
             ELSE <<house_obj>> \o rest

\* calculate_birth_chart, "Calculate houses"
ExtractHouses(house_attrs) == HousesFrom(house_attrs, 1)

\* str.upper() on the point names the library reports
Upper(name) ==
    CASE name = "Sun" -> "SUN"
      [] name = "Moon" -> "MOON"
      [] name = "Mercury" -> "MERCURY"
      [] name = "Venus" -> "VENUS"
      [] name = "Mars" -> "MARS"
      [] name = "Jupiter" -> "JUPITER"
      [] name = "Saturn" -> "SATURN"
      [] name = "Uranus" -> "URANUS"
      [] name = "Neptune" -> "NEPTUNE"
      [] name = "Pluto" -> "PLUTO"
      [] name = "Chiron" -> "CHIRON"
      [] name = "Mean_Node" -> "MEAN_NODE"
      [] name = "True_Node" -> "TRUE_NODE"
      [] OTHER -> name

\* the exception classes that are ValueError: pydantic's ValidationError is,
\* pytz's UnknownTimeZoneError is a KeyError
IsValueError(exc) == exc = "ValidationError"

\* the cache key of _get_or_create_instance: minute, second and timezone
\* are not part of it
CacheKey(datetime, location) ==
    <<datetime.year, datetime.month, datetime.day, datetime.hour,
      location.latitude, location.longitude>>

\* AstrologicalSubject(...): raises where the library cannot build a subject
AstrologicalSubject(failing, datetime, location) ==
    IF location \in failing \/ datetime.timezone \notin KnownZones \cup {"GMT"}
    THEN [ok |-> FALSE, exc |-> "KerykeionException"]
    ELSE [ok |-> TRUE, subject |-> SubjectArgs(datetime, location)]

\* _get_or_create_instance with a cache that holds one subject: a miss
\* replaces whatever is stored
get_or_create_single_slot(inst, failing, datetime, location) ==
    LET key == CacheKey(datetime, location)
        made == AstrologicalSubject(failing, datetime, location)
    IN  IF key \in DOMAIN inst
        THEN [ok |-> TRUE, instances |-> inst, subject |-> inst[key],
              built |-> <<>>]
        ELSE IF ~made.ok
             THEN [ok |-> FALSE, instances |-> inst, exc |-> made.exc,
                   built |-> <<SubjectArgs(datetime, location)>>]
             ELSE [ok |-> TRUE, instances |-> (key :> made.subject),
                   subject |-> made.subject,
                   built |-> <<SubjectArgs(datetime, location)>>]

\* _get_or_create_instance building and storing a subject on a hit as well
get_or_create_rebuild_on_hit(inst, failing, datetime, location) ==
    LET key == CacheKey(datetime, location)
        made == AstrologicalSubject(failing, datetime, location)
        stored == (key :> made.subject) @@ inst
    IN  IF ~made.ok
        THEN [ok |-> FALSE, instances |-> inst, exc |-> made.exc,
              built |-> <<SubjectArgs(datetime, location)>>]
        ELSE [ok |-> TRUE, instances |-> stored, subject |-> stored[key],
              built |-> <<SubjectArgs(datetime, location)>>]

\* _get_or_create_instance: the cache afterwards, the subject returned or
\* the exception raised, and the constructor calls made (built)
_get_or_create_instance(inst, failing, datetime, location) ==
    LET key == CacheKey(datetime, location)
        made == AstrologicalSubject(failing, datetime, location)
        stored == (key :> made.subject) @@ inst
    IN  IF key \in DOMAIN inst
        THEN [ok |-> TRUE, instances |-> inst, subject |-> inst[key],
              built |-> <<>>]
        ELSE IF ~made.ok
             THEN [ok |-> FALSE, instances |-> inst, exc |-> made.exc,
                   built |-> <<SubjectArgs(datetime, location)>>]
             ELSE [ok |-> TRUE, instances |-> stored, subject |-> stored[key],
                   built |-> <<SubjectArgs(datetime, location)>>]

\* _convert_to_gmt: pytz.timezone(), localize(), astimezone(pytz.UTC)
_convert_to_gmt(dt, timezone) ==
    IF timezone \notin KnownZones
    THEN [ok |-> FALSE, exc |-> "UnknownTimeZoneError"]
    ELSE [ok |-> TRUE,
          dt |-> PyFromMinutes(PyToMinutes(dt) - LocalizeOffset(timezone, dt),
                               dt.second)]

\* the four angle attributes of the subject can be read: each is a point
AnglesReadable(instance) ==
    /\ IsPointModel(instance.ascendant)
    /\ IsPointModel(instance.medium_coeli)
    /\ IsPointModel(instance.descendant)
    /\ IsPointModel(instance.imum_coeli)

\* ChartAngles(...) read from the subject
AnglesOf(instance) ==
    [ascendant |-> instance.ascendant.abs_pos,
     midheaven |-> instance.medium_coeli.abs_pos,
     descendant |-> instance.descendant.abs_pos,
     imum_coeli |-> instance.imum_coeli.abs_pos]

AnglesValid(a) ==
    /\ IsLongitude(a.ascendant) /\ IsLongitude(a.midheaven)
    /\ IsLongitude(a.descendant) /\ IsLongitude(a.imum_coeli)

\* the bodies loop of calculate_birth_chart leaving the loop at the first
\* body it cannot convert
RECURSIVE bodies_from_abort(_, _)
bodies_from_abort(attrs, k) ==
    IF k > Len(CelestialBody)
    THEN <<>>
    ELSE LET planet == attrs[k]
             rest == bodies_from_abort(attrs, k + 1)
         IN  IF ~IsPointModel(planet) THEN <<>>
             ELSE IF ~IsLongitude(planet.abs_pos) THEN <<>>
             ELSE IF "retrograde" \notin DOMAIN planet THEN <<>>
             ELSE <<[id |-> CelestialBody[k], longitude |-> planet.abs_pos,
                     latitude |-> 0, distance |-> 0, speed |-> 0,
                     is_retrograde |-> planet.retrograde]>> \o rest

\* the bodies loop of calculate_birth_chart over CelestialBody[k..13]:
\* a body is skipped when the attribute is no point model or when
\* BodyPosition(...) raises (longitude out of range, is_retrograde None)
RECURSIVE BodiesFrom(_, _)
BodiesFrom(attrs, k) ==
    IF k > Len(CelestialBody)
    THEN <<>>
    ELSE LET planet == attrs[k]
             rest == BodiesFrom(attrs, k + 1)
         IN  IF ~IsPointModel(planet) THEN rest
             ELSE IF ~IsLongitude(planet.abs_pos) THEN rest
             ELSE IF "retrograde" \notin DOMAIN planet THEN rest
             ELSE <<[id |-> CelestialBody[k], longitude |-> planet.abs_pos,
                     latitude |-> 0, distance |-> 0, speed |-> 0,
                     is_retrograde |-> planet.retrograde]>> \o rest

\* calculate_birth_chart, "Calculate body positions"
ExtractBodies(attrs) == BodiesFrom(attrs, 1)

\* 1.0 degree, the natal exactness threshold, in 1/100 degree
NatalExactOrb == 100

Abs(x) == IF x < 0 THEN 0 - x ELSE x

\* an aspect record whose fields can all be read; a record that lacks one
\* raises inside the loop body
AspectReadable(aspect) ==
    {"p1_name", "p2_name", "aspect", "orbit"} \subseteq DOMAIN aspect

\* the aspects loop of calculate_birth_chart keeping the sign of the orb
RECURSIVE natal_aspects_signed_orb(_, _)
natal_aspects_signed_orb(records, k) ==
    IF k > Len(records)
    THEN <<>>
    ELSE LET aspect == records[k]
             rest == natal_aspects_signed_orb(records, k + 1)
         IN  IF ~AspectReadable(aspect) THEN rest
             ELSE IF \/ Upper(aspect.p1_name) \notin Range(CelestialBody)
                     \/ Upper(aspect.p2_name) \notin Range(CelestialBody)
             THEN rest
             ELSE <<[body1 |-> Upper(aspect.p1_name),
                     body2 |-> Upper(aspect.p2_name),
                     type |-> aspect.aspect,
                     orb |-> aspect.orbit,
                     exact |-> aspect.orbit <= NatalExactOrb,
                     applying |-> aspect.orbit < 0]>> \o rest

\* the aspects loop of calculate_birth_chart: a record is skipped when it
\* names a body outside the enumeration or when its conversion raises
RECURSIVE NatalAspectsFrom(_, _)
NatalAspectsFrom(records, k) ==
    IF k > Len(records)
    THEN <<>>
    ELSE LET aspect == records[k]
             rest == NatalAspectsFrom(records, k + 1)
         IN  IF ~AspectReadable(aspect) THEN rest
             ELSE IF \/ Upper(aspect.p1_name) \notin Range(CelestialBody)
                     \/ Upper(aspect.p2_name) \notin Range(CelestialBody)
             THEN rest
             ELSE <<[body1 |-> Upper(aspect.p1_name),
                     body2 |-> Upper(aspect.p2_name),
                     type |-> aspect.aspect,
                     orb |-> Abs(aspect.orbit),
                     exact |-> Abs(aspect.orbit) <= NatalExactOrb,
                     applying |-> aspect.orbit < 0]>> \o rest

\* calculate_birth_chart, "Calculate aspects": when NatalAspects(instance)
\* raises, the stage is left with the empty list and nothing is raised
ExtractAspects(natal) ==
    IF ~natal.ok THEN <<>> ELSE NatalAspectsFrom(natal.relevant_aspects, 1)

\* BirthChart(...) carrying the caller's local DateTime
chart_with_local_datetime(birth_datetime, gmt_datetime, location, instance) ==
    [datetime |-> birth_datetime,
     location |-> location,
     bodies |-> ExtractBodies(instance.bodies),
     houses |-> ExtractHouses(instance.houses),
     angles |-> AnglesOf(instance),
     aspects |-> ExtractAspects(instance.natal)]

\* the BirthChart that calculate_birth_chart assembles from the subject
AssembleChart(birth_datetime, gmt_datetime, location, instance) ==
    [datetime |-> gmt_datetime,
     location |-> location,
     bodies |-> ExtractBodies(instance.bodies),
     houses |-> ExtractHouses(instance.houses),
     angles |-> AnglesOf(instance),
     aspects |-> ExtractAspects(instance.natal)]

\* calculate_birth_chart from "Calculate angles" on, raising what the
\* aspect finder raises
read_instance_aspects_fatal(birth_datetime, gmt_datetime, location, instance) ==
    IF ~AnglesReadable(instance)
    THEN [ok |-> FALSE, exc |-> "AttributeError"]
    ELSE IF ~AnglesValid(AnglesOf(instance))
    THEN [ok |-> FALSE, exc |-> "ValidationError"]
    ELSE IF ~instance.natal.ok
    THEN [ok |-> FALSE, exc |-> "KerykeionException"]
    ELSE [ok |-> TRUE,
          chart |-> AssembleChart(birth_datetime, gmt_datetime, location,
                                  instance)]

\* calculate_birth_chart from "Calculate angles" on: a failure to read or
\* validate the angles is raised, every later stage recovers on its own
ReadInstance(birth_datetime, gmt_datetime, location, instance) ==
    IF ~AnglesReadable(instance)
    THEN [ok |-> FALSE, exc |-> "AttributeError"]
    ELSE IF ~AnglesValid(AnglesOf(instance))
    THEN [ok |-> FALSE, exc |-> "ValidationError"]
    ELSE [ok |-> TRUE,
          chart |-> AssembleChart(birth_datetime, gmt_datetime, location,
                                  instance)]

\* calculate_birth_chart handing the house system to the library, which
\* then reports the cusps of that system: every system after the first
\* moves each cusp by a degree
calculate_birth_chart_by_system(inst, failing, birth_datetime, location, house_system) ==
    LET conv == _convert_to_gmt(birth_datetime, birth_datetime.timezone)
        gmt_datetime == [year |-> conv.dt.year, month |-> conv.dt.month,
                         day |-> conv.dt.day, hour |-> conv.dt.hour,
                         minute |-> conv.dt.minute, second |-> conv.dt.second,
                         timezone |-> "GMT"]
        got == _get_or_create_instance(inst, failing, gmt_datetime, location)
        built == Subject(got.subject)
        shift == IF house_system = HouseSystem[1] THEN 0 ELSE 1
        instance == [built EXCEPT !.houses =
                        [i \in 1..12 |->
                            Point((built.houses[i].abs_pos + shift) % Circle,
                                  FALSE)]]
        read == ReadInstance(birth_datetime, gmt_datetime, location, instance)
    IN  IF ~conv.ok
        THEN [ok |-> FALSE, instances |-> inst, built |-> <<>>,
              exc |-> conv.exc]
        ELSE IF DateTimeConstruct(gmt_datetime) # "ok"
        THEN [ok |-> FALSE, instances |-> inst, built |-> <<>>,
              exc |-> "ValidationError"]
        ELSE IF ~got.ok
        THEN [ok |-> FALSE, instances |-> got.instances, built |-> got.built,
              exc |-> got.exc]
        ELSE IF ~read.ok
        THEN [ok |-> FALSE, instances |-> got.instances, built |-> got.built,
              exc |-> read.exc]
        ELSE [ok |-> TRUE, instances |-> got.instances, built |-> got.built,
              chart |-> read.chart]

\* calculate_birth_chart(birth_datetime, location, house_system) on a service
\* whose cache is inst: the cache afterwards and either the chart or the
\* exception raised
calculate_birth_chart(inst, failing, birth_datetime, location, house_system) ==
    LET conv == _convert_to_gmt(birth_datetime, birth_datetime.timezone)
        gmt_datetime == [year |-> conv.dt.year, month |-> conv.dt.month,
                         day |-> conv.dt.day, hour |-> conv.dt.hour,
                         minute |-> conv.dt.minute, second |-> conv.dt.second,
                         timezone |-> "GMT"]
        got == _get_or_create_instance(inst, failing, gmt_datetime, location)
        read == ReadInstance(birth_datetime, gmt_datetime, location,
                             Subject(got.subject))
    IN  IF ~conv.ok
        THEN [ok |-> FALSE, instances |-> inst, built |-> <<>>,
              exc |-> conv.exc]
        ELSE IF DateTimeConstruct(gmt_datetime) # "ok"
        THEN [ok |-> FALSE, instances |-> inst, built |-> <<>>,
              exc |-> "ValidationError"]
        ELSE IF ~got.ok
        THEN [ok |-> FALSE, instances |-> got.instances, built |-> got.built,
              exc |-> got.exc]
        ELSE IF ~read.ok
        THEN [ok |-> FALSE, instances |-> got.instances, built |-> got.built,
              exc |-> read.exc]
        ELSE [ok |-> TRUE, instances |-> got.instances, built |-> got.built,
              chart |-> read.chart]

\* 0.1 degree, the transit exactness threshold, in 1/100 degree
TransitExactOrb == 10

\* the aspects loop of calculate_transits without the tolerance test
RECURSIVE transit_aspects_unfiltered(_, _, _)
transit_aspects_unfiltered(records, k, orb) ==
    IF k > Len(records)
    THEN <<>>
    ELSE LET aspect == records[k]
             rest == transit_aspects_unfiltered(records, k + 1, orb)
         IN  IF ~AspectReadable(aspect) THEN rest
             ELSE IF \/ Upper(aspect.p1_name) \notin Range(CelestialBody)
                     \/ Upper(aspect.p2_name) \notin Range(CelestialBody)
             THEN rest
             ELSE <<[body1 |-> Upper(aspect.p1_name),
                     body2 |-> Upper(aspect.p2_name),
                     type |-> aspect.aspect,
                     orb |-> Abs(aspect.orbit),
                     exact |-> Abs(aspect.orbit) <= TransitExactOrb,
                     applying |-> aspect.orbit < 0]>> \o rest

\* the aspects loop of calculate_transits: a record is skipped when it
\* names a body outside the enumeration, lies beyond the tolerance, or its
\* conversion raises
RECURSIVE TransitAspectsFrom(_, _, _)
TransitAspectsFrom(records, k, orb) ==
    IF k > Len(records)
    THEN <<>>
    ELSE LET aspect == records[k]
             rest == TransitAspectsFrom(records, k + 1, orb)
         IN  IF ~AspectReadable(aspect) THEN rest
             ELSE IF \/ Upper(aspect.p1_name) \notin Range(CelestialBody)
                     \/ Upper(aspect.p2_name) \notin Range(CelestialBody)
             THEN rest
             ELSE IF Abs(aspect.orbit) > orb
             THEN rest
             ELSE <<[body1 |-> Upper(aspect.p1_name),
                     body2 |-> Upper(aspect.p2_name),
                     type |-> aspect.aspect,
                     orb |-> Abs(aspect.orbit),
                     exact |-> Abs(aspect.orbit) <= TransitExactOrb,
                     applying |-> aspect.orbit < 0]>> \o rest

\* calculate_transits from SynastryAspects(...) on: found is what the
\* library's aspect finder did; any failure leaves as HTTPException(500)
ConvertTransits(found, orb) ==
    IF ~found.ok
    THEN [ok |-> FALSE, exc |-> "HTTPException"]
    ELSE [ok |-> TRUE,
          aspects |-> TransitAspectsFrom(found.relevant_aspects, 1, orb)]

\* calculate_transits(natal_chart, date_range, orb): the cache is neither
\* read nor written; any failure leaves as HTTPException(500)
calculate_transits(inst, failing, natal_chart, date_range, orb) ==
    LET natal == AstrologicalSubject(failing, natal_chart.datetime,
                                     natal_chart.location)
        transit == AstrologicalSubject(failing, date_range.start,
                                       natal_chart.location)
        natal_args == SubjectArgs(natal_chart.datetime, natal_chart.location)
        transit_args == SubjectArgs(date_range.start, natal_chart.location)
        found == [ok |-> TRUE,
                  relevant_aspects |->
                      LibSynastryAspects(transit.subject, natal.subject, orb)]
    IN  IF ~natal.ok
        THEN [ok |-> FALSE, instances |-> inst, built |-> <<natal_args>>,
              exc |-> "HTTPException"]
        ELSE IF ~transit.ok
        THEN [ok |-> FALSE, instances |-> inst,
              built |-> <<natal_args, transit_args>>, exc |-> "HTTPException"]
        ELSE [ok |-> TRUE, instances |-> inst,
              built |-> <<natal_args, transit_args>>,
              aspects |-> ConvertTransits(found, orb).aspects]

(***************************************************************************)
(* Routers: what each handler answers for an outcome of the service call   *)
(***************************************************************************)
\* routes/birth_chart.py, POST /birth-chart/calculate
RoutesBirthChart(out) ==
    IF out.ok THEN [status |-> 200, body |-> out.chart]
    ELSE IF IsValueError(out.exc)
    THEN [status |-> 400, body |-> [detail |-> "Invalid input"]]
    ELSE [status |-> 500, body |-> [detail |-> "Failed to calculate birth chart"]]

\* api/endpoints.py, POST /birth-chart
EndpointsBirthChart(out) ==
    IF out.ok THEN [status |-> 200, body |-> out.chart]
    ELSE [status |-> 500, body |-> [detail |-> out.exc]]

\* api/endpoints.py, POST /houses
EndpointsHouses(out) ==
    IF out.ok THEN [status |-> 200, body |-> [houses |-> out.chart.houses]]
    ELSE [status |-> 500, body |-> [detail |-> out.exc]]

\* api/endpoints.py, the handlers that raise NotImplementedError inside
\* their own try block: the except clause answers for it
EndpointsUnimplemented(handler) ==
    LET raised == "NotImplementedError"
    IN  [status |-> 500, body |-> [detail |-> raised]]

(***************************************************************************)
(* DateTime construction on its own                                        *)
(***************************************************************************)
\* how far outside the declared field ranges the attempted values go
FieldSlack == 1

DateHours == {0, 23}

DateFields ==
    [year : (MinYear - FieldSlack)..(MaxYear + FieldSlack),
     month : (1 - FieldSlack)..(12 + FieldSlack),
     day : (1 - FieldSlack)..(31 + FieldSlack),
     hour : DateHours, minute : {0, 59}, second : {0}]

ServiceIdle ==
    /\ variant = "routes"
    /\ instances = <<>>
    /\ lib = {}
    /\ resp = [op |-> "none"]
    /\ probe = [op |-> "none"]

DateIdle == dateIn = <<>> /\ dateOut = "idle"

HouseIdle == cuspIn = <<>> /\ houseOut = [st |-> "idle"]

StageIdle == subject = [kind |-> "none"] /\ stage = [st |-> "idle"]

TasksIdle == tasks = <<>>

DateInit ==
    /\ dateIn \in DateFields
    /\ dateOut = "pending"
    /\ ServiceIdle
    /\ HouseIdle
    /\ StageIdle
    /\ TasksIdle

\* DateTime(year=..., month=..., ...)
ConstructDateTime ==
    /\ dateOut = "pending"
    /\ dateOut' = DateTimeConstruct(dateIn)
    /\ UNCHANGED <<dateIn, svcVars, houseVars, stageVars, tasks>>

DateNext == ConstructDateTime

SpecDate == DateInit /\ [][DateNext]_vars

(***************************************************************************)
(* House extraction on its own: the library's cusps are arbitrary          *)
(***************************************************************************)
\* number of cusp values the twelve cusps are drawn from
GridSize == 2

\* spacing of those values
GridStep == 90

CuspGrid == {k * GridStep : k \in 0..(GridSize - 1)}

HouseInit ==
    /\ \/ cuspIn \in [1..2 -> 0..(Circle - 1)]
       \/ cuspIn \in [1..12 -> CuspGrid]
    /\ houseOut = [st |-> "pending"]
    /\ ServiceIdle
    /\ DateIdle
    /\ StageIdle
    /\ TasksIdle

\* one call of _calculate_house_size(cusp1, cusp2)
CalculateHouseSize ==
    /\ houseOut.st = "pending"
    /\ Len(cuspIn) = 2
    /\ houseOut' = [st |-> "size", size |-> _calculate_house_size(cuspIn[1], cuspIn[2])]
    /\ UNCHANGED <<cuspIn, svcVars, dateVars, stageVars, tasks>>

\* the houses stage of calculate_birth_chart on a subject with these cusps
CalculateHouses ==
    /\ houseOut.st = "pending"
    /\ Len(cuspIn) = 12
    /\ houseOut' = [st |-> "houses", houses |->
           ExtractHouses([i \in 1..12 |-> Point(cuspIn[i], FALSE)])]
    /\ UNCHANGED <<cuspIn, svcVars, dateVars, stageVars, tasks>>

HouseNext == CalculateHouseSize \/ CalculateHouses

SpecHouse == HouseInit /\ [][HouseNext]_vars

(***************************************************************************)
(* The deployed service: one router module, one KerykeionService           *)
(***************************************************************************)
NewYork == [latitude |-> 407128, longitude |-> 0 - 740060, altitude |-> {}]
Mumbai == [latitude |-> 190760, longitude |-> 728777, altitude |-> {}]

Locations == {NewYork, Mumbai}

\* how many of the ten house systems the requests use
NumHouseSystems == 2

HouseSystems == {HouseSystem[i] : i \in 1..NumHouseSystems}

Stamp(y, mo, d, h, mi, s, tz) ==
    [year |-> y, month |-> mo, day |-> d, hour |-> h, minute |-> mi,
     second |-> s, timezone |-> tz]

\* schema-valid DateTime values: two instants of the same hour, the first
\* hour of the first valid year in a zone east of Greenwich, and a zone
\* name pytz does not know
RequestDateTimes ==
    {Stamp(2000, 1, 1, 12, 0, 0, "UTC"), Stamp(2000, 1, 1, 12, 30, 0, "UTC"),
     Stamp(MinYear, 1, 1, 0, 0, 0, "Asia/Tokyo"),
     Stamp(2000, 1, 1, 12, 0, 0, UnknownZone)}

Requests ==
    [datetime : RequestDateTimes, location : Locations,
     house_system : HouseSystems]

Init ==
    /\ variant \in {"routes", "endpoints"}
    /\ instances = <<>>
    /\ lib \in SUBSET Locations
    /\ resp = [op |-> "none"]
    /\ probe = [op |-> "none"]
    /\ DateIdle
    /\ HouseIdle
    /\ StageIdle
    /\ TasksIdle

\* the call may be remembered, once, to be compared with later ones
Remember(r, out) ==
    probe' \in {probe} \cup
        (IF probe.op = "none" /\ out.ok
         THEN {[op |-> "seen", req |-> r, chart |-> out.chart]}
         ELSE {})

\* what the handler `op` of router v answers for an outcome of the service
Answer(v, op, out) ==
    IF v = "routes" THEN RoutesBirthChart(out)
    ELSE IF op = "houses" THEN EndpointsHouses(out)
    ELSE EndpointsBirthChart(out)

\* a birth-chart request r handled by the handler `op` of router v
BirthChartCall(v, op, reqs) ==
    /\ variant = v
    /\ \E r \in reqs :
         \E out \in {calculate_birth_chart(instances, lib, r.datetime,
                                           r.location, r.house_system)} :
         LET ans == Answer(v, op, out)
         IN  /\ instances' = out.instances
             /\ resp' = [op |-> op, req |-> r,
                         svc |-> IF out.ok
                                 THEN [ok |-> TRUE, chart |-> out.chart]
                                 ELSE [ok |-> FALSE, exc |-> out.exc],
                         built |-> out.built,
                         status |-> ans.status, body |-> ans.body]
             /\ Remember(r, out)
    /\ UNCHANGED <<variant, lib, dateVars, houseVars, stageVars, tasks>>

\* routes/birth_chart.py: POST /birth-chart/calculate
RoutesCalculateBirthChart ==
    BirthChartCall("routes", "birth-chart", Requests)

\* api/endpoints.py: POST /birth-chart
EndpointsCalculateBirthChart ==
    BirthChartCall("endpoints", "birth-chart", Requests)

\* api/endpoints.py: POST /houses
EndpointsCalculateHouses ==
    BirthChartCall("endpoints", "houses", Requests)

\* request bodies of the handlers that compute nothing: valid ones
UnimplementedBodies ==
    {[date_range |-> [start |-> dt, end |-> dt]] : dt \in RequestDateTimes}

UnimplementedCall(handler) ==
    /\ variant = "endpoints"
    /\ \E b \in UnimplementedBodies :
         LET ans == EndpointsUnimplemented(handler)
         IN  resp' = [op |-> handler, req |-> b,
                      svc |-> [ok |-> FALSE, exc |-> "NotImplementedError"],
                      built |-> <<>>,
                      status |-> ans.status, body |-> ans.body]
    /\ UNCHANGED <<variant, instances, lib, probe, dateVars, houseVars, stageVars,
                   tasks>>

\* api/endpoints.py: POST /aspects
EndpointsCalculateAspects == UnimplementedCall("aspects")

\* api/endpoints.py: POST /transits
EndpointsCalculateTransits == UnimplementedCall("transits")

\* api/endpoints.py: POST /significant-events
EndpointsSignificantEvents == UnimplementedCall("significant-events")

\* api/endpoints.py: POST /fixed-stars
EndpointsFixedStars == UnimplementedCall("fixed-stars")

\* api/endpoints.py: POST /lunar-phases
EndpointsLunarPhases == UnimplementedCall("lunar-phases")

\* orb tolerances of the transit calls, in 1/100 degree
TransitOrbs == {10, 100}

\* KerykeionService.calculate_transits called on a chart the service has
\* just returned
ServiceCalculateTransits ==
    /\ resp.op = "birth-chart"
    /\ resp.status = 200
    /\ \E start \in RequestDateTimes, orb \in TransitOrbs :
         \E out \in {calculate_transits(instances, lib, resp.body,
                                        [start |-> start, end |-> start], orb)} :
         LET range == [start |-> start, end |-> start]
         IN  /\ instances' = out.instances
             /\ resp' = [op |-> "service.calculate_transits",
                         req |-> [natal_chart |-> resp.body,
                                  date_range |-> range, orb |-> orb],
                         svc |-> IF out.ok
                                 THEN [ok |-> TRUE, aspects |-> out.aspects]
                                 ELSE [ok |-> FALSE, exc |-> out.exc],
                         built |-> out.built,
                         status |-> IF out.ok THEN 200 ELSE 500,
                         body |-> IF out.ok THEN [aspects |-> out.aspects]
                                  ELSE [detail |-> out.exc]]
    /\ UNCHANGED <<variant, lib, probe, dateVars, houseVars, stageVars, tasks>>

Next ==
    \/ RoutesCalculateBirthChart
    \/ EndpointsCalculateBirthChart
    \/ EndpointsCalculateHouses
    \/ EndpointsCalculateAspects
    \/ EndpointsCalculateTransits
    \/ EndpointsSignificantEvents
    \/ EndpointsFixedStars
    \/ EndpointsLunarPhases
    \/ ServiceCalculateTransits

Spec == Init /\ [][Next]_vars

(***************************************************************************)
(* The deployed service with no call singled out for comparison            *)
(***************************************************************************)
CacheInit ==
    /\ variant \in {"routes", "endpoints"}
    /\ instances = <<>>
    /\ lib \in SUBSET Locations
    /\ resp = [op |-> "none"]
    /\ probe = [op |-> "off"]
    /\ DateIdle
    /\ HouseIdle
    /\ StageIdle
    /\ TasksIdle

SpecCache == CacheInit /\ [][Next]_vars

(***************************************************************************)
(* The deployed service asked for every house system                       *)
(***************************************************************************)
\* two instants of one hour and one whose UTC year is out of range
SystemDateTimes ==
    {Stamp(2000, 1, 1, 12, 0, 0, "UTC"), Stamp(2000, 1, 1, 12, 30, 0, "UTC"),
     Stamp(MinYear, 1, 1, 0, 0, 0, "Asia/Tokyo")}

SystemRequests ==
    [datetime : SystemDateTimes, location : {Mumbai},
     house_system : Range(HouseSystem)]

SystemInit ==
    /\ variant \in {"routes", "endpoints"}
    /\ instances = <<>>
    /\ lib \in SUBSET {Mumbai}
    /\ resp = [op |-> "none"]
    /\ probe = [op |-> "off"]
    /\ DateIdle
    /\ HouseIdle
    /\ StageIdle
    /\ TasksIdle

\* routes/birth_chart.py: POST /birth-chart/calculate
AnySystemRoutesCalculateBirthChart ==
    BirthChartCall("routes", "birth-chart", SystemRequests)

\* api/endpoints.py: POST /birth-chart
AnySystemEndpointsCalculateBirthChart ==
    BirthChartCall("endpoints", "birth-chart", SystemRequests)

\* api/endpoints.py: POST /houses
AnySystemEndpointsCalculateHouses ==
    BirthChartCall("endpoints", "houses", SystemRequests)

SystemNext ==
    \/ AnySystemRoutesCalculateBirthChart
    \/ AnySystemEndpointsCalculateBirthChart
    \/ AnySystemEndpointsCalculateHouses

SpecSystem == SystemInit /\ [][SystemNext]_vars

(***************************************************************************)
(* Two birth-chart requests in flight at once.  The handlers are           *)
(* coroutines on one event loop and calculate_birth_chart contains no      *)
(* await: once a handler is resumed the call runs to its end, and the      *)
(* event loop is free to resume the two handlers in either order.          *)
(***************************************************************************)
TaskIds == {1, 2}

RaceInit ==
    /\ variant \in {"routes", "endpoints"}
    /\ instances = <<>>
    /\ lib \in SUBSET Locations
    /\ resp = [op |-> "none"]
    /\ probe = [op |-> "off"]
    /\ tasks \in [TaskIds -> {[st |-> "pending", req |-> r] : r \in Requests}]
    /\ DateIdle
    /\ HouseIdle
    /\ StageIdle

\* the event loop resumes the handler of request i of router v
RunTask(v, i) ==
    /\ variant = v
    /\ tasks[i].st = "pending"
    /\ \E out \in {calculate_birth_chart(instances, lib, tasks[i].req.datetime,
                                          tasks[i].req.location,
                                          tasks[i].req.house_system)} :
         LET ans == Answer(v, "birth-chart", out)
         IN  /\ instances' = out.instances
             /\ tasks' = [tasks EXCEPT ![i] =
                             [st |-> "done", req |-> tasks[i].req,
                              svc |-> IF out.ok
                                      THEN [ok |-> TRUE, chart |-> out.chart]
                                      ELSE [ok |-> FALSE, exc |-> out.exc],
                              status |-> ans.status, body |-> ans.body]]
    /\ UNCHANGED <<variant, lib, resp, probe, dateVars, houseVars, stageVars>>

\* routes/birth_chart.py: POST /birth-chart/calculate, one of the two
RoutesRunTask == \E i \in TaskIds : RunTask("routes", i)

\* api/endpoints.py: POST /birth-chart, one of the two
EndpointsRunTask == \E i \in TaskIds : RunTask("endpoints", i)

RaceNext == RoutesRunTask \/ EndpointsRunTask

SpecRace == RaceInit /\ [][RaceNext]_vars

(***************************************************************************)
(* A first birth-chart request on a fresh service, over many local times   *)
(* and zones                                                               *)
(***************************************************************************)
WideYears == {MinYear, 2000, MaxYear}

WideMonthDays ==
    {<<1, 1>>, <<2, 28>>, <<2, 29>>, <<3, 1>>, <<4, 2>>, <<10, 29>>, <<12, 31>>}

WideHours == {0, 1, 2, 12, 23}

WideZones == KnownZones \cup {UnknownZone}

\* the schema-valid DateTime values among the combinations
WideDateTimes ==
    {dt \in {Stamp(y, md[1], md[2], h, mi, sec, tz) :
                 y \in WideYears, md \in WideMonthDays, h \in WideHours,
                 mi \in {0, 30}, sec \in {0, 59}, tz \in WideZones} :
        DateTimeConstruct(dt) = "ok"}

WideRequests ==
    [datetime : WideDateTimes, location : {Mumbai},
     house_system : {HouseSystem[1]}]

GmtInit ==
    /\ variant \in {"routes", "endpoints"}
    /\ instances = <<>>
    /\ lib = {}
    /\ resp = [op |-> "none"]
    /\ probe = [op |-> "none"]
    /\ DateIdle
    /\ HouseIdle
    /\ StageIdle
    /\ TasksIdle

\* routes/birth_chart.py: the first POST /birth-chart/calculate
FirstRoutesCalculateBirthChart ==
    /\ resp.op = "none"
    /\ BirthChartCall("routes", "birth-chart", WideRequests)

\* api/endpoints.py: the first POST /birth-chart
FirstEndpointsCalculateBirthChart ==
    /\ resp.op = "none"
    /\ BirthChartCall("endpoints", "birth-chart", WideRequests)

GmtNext == FirstRoutesCalculateBirthChart \/ FirstEndpointsCalculateBirthChart

SpecGmt == GmtInit /\ [][GmtNext]_vars

(***************************************************************************)
(* The stages of the service on whatever the library hands back: the       *)
(* subject's attributes and the aspect records are arbitrary                *)
(***************************************************************************)
\* how many attributes of one subject are malformed at once
MaxBad == 2

\* how many records an aspect finder reports
MaxRecords == 3

\* the instant and place the subject was built for
StageDateTime == Stamp(2000, 1, 1, 12, 0, 0, "GMT")

BaseInstance == Subject(SubjectArgs(StageDateTime, Mumbai))

\* index sets of at most MaxBad malformed attributes among n
BadSets(n) == {B \in SUBSET (1..n) : Cardinality(B) <= MaxBad}

\* what a malformed house or body attribute may be: no point model at all,
\* or a point whose longitude is outside [0,360)
BadPoints == {NotAPoint, Point(Circle, FALSE), Point(0 - 1, FALSE)}

\* twelve cusps that advance by a fixed step from a start: equal cusps,
\* cusps once round the circle, cusps running backwards
CuspStarts == {0, 45, 359}

CuspSteps == {0, 7, 30, 330}

CuspRows ==
    {[i \in 1..12 |-> Point((start + step * (i - 1)) % Circle, FALSE)] :
        start \in CuspStarts, step \in CuspSteps}

\* a subject whose house attributes are the row, malformed at B
HouseSubject(row, B, bad) ==
    [BaseInstance EXCEPT !.houses =
        [i \in 1..12 |-> IF i \in B THEN bad ELSE row[i]]]

\* a subject whose body attributes are malformed at B
BodySubject(B, bad) ==
    [BaseInstance EXCEPT !.bodies =
        [k \in 1..Len(CelestialBody) |->
            IF k \in B THEN bad ELSE Point((29 * k) % Circle, k % 3 = 0)]]

AngleNames == {"ascendant", "medium_coeli", "descendant", "imum_coeli"}

\* a subject whose angle a is x
AngleSubject(a, x) == [BaseInstance EXCEPT ![a] = x]

\* signed orbs around both exactness thresholds and both tolerances
RecordOrbits == {0 - 101, 0 - 100, 0 - 11, 0, 10, 100, 101}

\* aspect records: between two bodies of the enumeration, with a point the
\* enumeration does not name, and one whose orbit cannot be read
AspectRecords ==
    {[p1_name |-> "Sun", p2_name |-> "Moon", aspect |-> "trine", orbit |-> o] :
        o \in RecordOrbits}
    \cup {[p1_name |-> "True_Node", p2_name |-> "Mars", aspect |-> "square",
           orbit |-> 0],
          [p1_name |-> "Venus", p2_name |-> "Mean_Node",
           aspect |-> "sextile", orbit |-> 5],
          [p1_name |-> "Mars", p2_name |-> "Pluto", aspect |-> "opposition"]}

\* the lists of n records
RecordLists(n) == [1..n -> AspectRecords]

\* an aspect finder that raises, and one that reports the list l
FinderRaised == [ok |-> FALSE]

FinderFound(l) == [ok |-> TRUE, relevant_aspects |-> l]

\* a subject on which NatalAspects does f
AspectSubject(f) == [BaseInstance EXCEPT !.natal = f]

\* the subject at hand, or the records SynastryAspects reports
StageInputs(s) ==
    \/ \E row \in CuspRows, B \in BadSets(12), bad \in BadPoints :
           s = [kind |-> "subject", instance |-> HouseSubject(row, B, bad)]
    \/ \E B \in BadSets(Len(CelestialBody)),
          bad \in BadPoints \cup {PointNoRetrograde(10)} :
           s = [kind |-> "subject", instance |-> BodySubject(B, bad)]
    \/ \E a \in AngleNames,
          x \in BadPoints \cup {Point(0, FALSE), Point(Circle - 1, FALSE)} :
           s = [kind |-> "subject", instance |-> AngleSubject(a, x)]
    \/ s = [kind |-> "subject", instance |-> AspectSubject(FinderRaised)]
    \/ \E n \in 0..MaxRecords : \E l \in RecordLists(n) :
           s = [kind |-> "subject", instance |-> AspectSubject(FinderFound(l))]
    \/ \E orb \in TransitOrbs :
           s = [kind |-> "synastry", found |-> FinderRaised, orb |-> orb]
    \/ \E n \in 0..MaxRecords : \E l \in RecordLists(n), orb \in TransitOrbs :
           s = [kind |-> "synastry", found |-> FinderFound(l), orb |-> orb]

StageInit ==
    /\ StageInputs(subject)
    /\ stage = [st |-> "pending"]
    /\ ServiceIdle
    /\ DateIdle
    /\ HouseIdle
    /\ TasksIdle

\* calculate_birth_chart once the subject is at hand
ServiceReadInstance ==
    /\ stage.st = "pending"
    /\ subject.kind = "subject"
    /\ stage' = [st |-> "chart",
                 out |-> ReadInstance(StageDateTime, StageDateTime, Mumbai,
                                      subject.instance)]
    /\ UNCHANGED <<subject, svcVars, dateVars, houseVars, tasks>>

\* api/endpoints.py, POST /houses: what it answers for that outcome
EndpointsAnswerHouses ==
    /\ stage.st = "chart"
    /\ stage' = [st |-> "houses", out |-> stage.out,
                 answer |-> EndpointsHouses(stage.out)]
    /\ UNCHANGED <<subject, svcVars, dateVars, houseVars, tasks>>

\* calculate_transits once SynastryAspects has been called
ServiceConvertTransits ==
    /\ stage.st = "pending"
    /\ subject.kind = "synastry"
    /\ stage' = [st |-> "transits",
                 out |-> ConvertTransits(subject.found, subject.orb)]
    /\ UNCHANGED <<subject, svcVars, dateVars, houseVars, tasks>>

StageNext ==
    \/ ServiceReadInstance
    \/ EndpointsAnswerHouses
    \/ ServiceConvertTransits

SpecStage == StageInit /\ [][StageNext]_vars

(***************************************************************************)
(* Properties                                                              *)
(***************************************************************************)
\* the Gregorian calendar, stated on its own
GregorianLeap(y) == y % 4 = 0 /\ (y % 100 # 0 \/ y % 400 = 0)

GregorianDays(y, m) ==
    IF m = 2 THEN (IF GregorianLeap(y) THEN 29 ELSE 28)
    ELSE IF m \in {4, 6, 9, 11} THEN 30 ELSE 31

DateInDeclaredRanges ==
    /\ dateIn.year \in MinYear..MaxYear
    /\ dateIn.month \in 1..12
    /\ dateIn.day \in 1..31
    /\ dateIn.hour \in 0..23
    /\ dateIn.minute \in 0..59
    /\ dateIn.second \in 0..59

\* C4: with every field inside its declared range, DateTime construction
\* succeeds exactly when the day is at most the number of days of that month
\* under the Gregorian leap rule; 30 February fails in every year,
\* 29 February 2000 succeeds and 29 February 1900 fails.
C4_DayValidIffInMonth ==
    (dateOut \in {"ok", "ValueError"} /\ DateInDeclaredRanges) =>
        /\ (dateOut = "ok") <=>
               (dateIn.day <= GregorianDays(dateIn.year, dateIn.month))
        /\ (dateIn.month = 2 /\ dateIn.day = 30) => dateOut = "ValueError"
        /\ (dateIn.year = 2000 /\ dateIn.month = 2 /\ dateIn.day = 29)
               => dateOut = "ok"
        /\ (dateIn.year = 1900 /\ dateIn.month = 2 /\ dateIn.day = 29)
               => dateOut = "ValueError"

\* C4 witness: 29 February 1900 was handed to the constructor and refused
C4_Witness ==
    /\ dateOut = "ValueError"
    /\ DateInDeclaredRanges
    /\ dateIn.year = 1900 /\ dateIn.month = 2 /\ dateIn.day = 29

Unimplemented ==
    {"aspects", "transits", "significant-events", "fixed-stars", "lunar-phases"}

\* C1: every request that reaches one of the handlers of the endpoints
\* router that compute nothing is answered 501 Not Implemented, never 200
\* or 500.
C1_UnimplementedAnswers501 ==
    resp.op \in Unimplemented => resp.status = 501

\* the external libraries succeed for the request: pytz knows the zone and
\* the subject can be built for the place
LibrariesSucceed(r) ==
    /\ r.datetime.timezone \in KnownZones
    /\ r.location \notin lib

\* C2: a schema-valid birth-chart request for which the external library
\* succeeds is answered 200 with the BirthChart of the service, in both
\* routers, and never with an error status.
C2_ValidRequestAnswers200 ==
    (resp.op = "birth-chart" /\ LibrariesSucceed(resp.req)) =>
        /\ resp.status = 200
        /\ resp.svc.ok
        /\ resp.body = resp.svc.chart

\* C3: in every birth-chart handler a value error raised by the service is
\* answered 400 and any other exception 500.
C3_StatusFollowsExceptionClass ==
    (resp.op = "birth-chart" /\ ~resp.svc.ok) =>
        resp.status = (IF IsValueError(resp.svc.exc) THEN 400 ELSE 500)

ChartCall == resp.op \in {"birth-chart", "houses"}

\* C5: on one service, two calls of calculate_birth_chart with the same
\* (datetime, location, house_system) return the same angles, bodies and
\* houses, whatever calls come before or between them.
C5_RepeatedCallsAgree ==
    (probe.op = "seen" /\ ChartCall /\ resp.svc.ok /\ resp.req = probe.req) =>
        /\ resp.svc.chart.angles = probe.chart.angles
        /\ resp.svc.chart.bodies = probe.chart.bodies
        /\ resp.svc.chart.houses = probe.chart.houses

\* C5 witness: a request is answered a second time, from a subject another
\* request of the same hour put into the cache
C5_Witness ==
    /\ probe.op = "seen" /\ ChartCall /\ resp.svc.ok /\ resp.req = probe.req
    /\ resp.req.datetime.minute = 30
    /\ instances[CacheKey(resp.svc.chart.datetime, resp.req.location)].minute = 0

\* what a service without the cache answers: the subject is built afresh
\* from the normalized instant and the location
Uncached(r) ==
    LET out == calculate_birth_chart(<<>>, lib, r.datetime, r.location,
                                     r.house_system)
    IN  IF out.ok THEN [ok |-> TRUE, chart |-> out.chart]
        ELSE [ok |-> FALSE, exc |-> out.exc]

\* C6: the cache is a pure memoization: every call returns what a service
\* that builds a fresh subject on every call returns.
C6_CacheIsPureMemoization ==
    ChartCall => resp.svc = Uncached(resp.req)

\* the date before and the date after, by the calendar
DayBefore(dt) ==
    IF dt.day > 1 THEN [dt EXCEPT !.day = dt.day - 1]
    ELSE IF dt.month > 1
    THEN [dt EXCEPT !.month = dt.month - 1,
                    !.day = GregorianDays(dt.year, dt.month - 1)]
    ELSE [dt EXCEPT !.year = dt.year - 1, !.month = 12, !.day = 31]

DayAfter(dt) ==
    IF dt.day < GregorianDays(dt.year, dt.month)
    THEN [dt EXCEPT !.day = dt.day + 1]
    ELSE IF dt.month < 12 THEN [dt EXCEPT !.month = dt.month + 1, !.day = 1]
    ELSE [dt EXCEPT !.year = dt.year + 1, !.month = 1, !.day = 1]

\* the local time moved back by the zone's offset, carrying into the date
ShiftedToUtc(dt) ==
    LET t == dt.hour * 60 + dt.minute - LocalizeOffset(dt.timezone, dt)
        on == IF t < 0 THEN DayBefore(dt)
              ELSE IF t >= 1440 THEN DayAfter(dt) ELSE dt
    IN  [on EXCEPT !.hour = (t % 1440) \div 60, !.minute = t % 60,
                   !.timezone = "GMT"]

\* C7: a returned BirthChart carries the input local time shifted by the
\* zone's UTC offset, with day, month and year roll-over, under the
\* timezone "GMT", and the input location unchanged.
C7_ChartCarriesUtcInstant ==
    (resp.op = "birth-chart" /\ resp.status = 200) =>
        /\ resp.body.datetime = ShiftedToUtc(resp.req.datetime)
        /\ resp.body.datetime.timezone = "GMT"
        /\ resp.body.location = resp.req.location

\* C7 witness: a chart whose UTC instant lies in the year after the local
\* one
C7_Witness ==
    /\ resp.op = "birth-chart" /\ resp.status = 200
    /\ resp.req.datetime.year = 2000
    /\ resp.req.datetime.timezone = "America/New_York"
    /\ resp.body.datetime.year = 2001
    /\ resp.body.datetime.month = 1 /\ resp.body.datetime.day = 1

\* the timezone normalization of the request cannot be carried out: the
\* zone is unknown, or the local time never happened or happened twice
NormalizationFails(dt) ==
    \/ dt.timezone \notin KnownZones
    \/ NonExistentLocal(dt.timezone, dt)
    \/ AmbiguousLocal(dt.timezone, dt)

\* C8: a failure of timezone normalization (unknown zone, ambiguous or
\* non-existent local time) is fatal: the call raises, returns no chart,
\* creates and caches no subject, and the route answers 5xx.
C8_NormalizationFailureIsFatal ==
    (resp.op = "birth-chart" /\ NormalizationFails(resp.req.datetime)) =>
        /\ ~resp.svc.ok
        /\ instances = <<>>
        /\ resp.status >= 500

RECURSIVE SumSizes(_)
SumSizes(houses) ==
    IF houses = <<>> THEN 0 ELSE Head(houses).size + SumSizes(Tail(houses))

\* the houses whose next cusp is numerically smaller than their own cusp
Wraps(cusps) ==
    {i \in 1..12 : cusps[IF i < 12 THEN i + 1 ELSE 1] < cusps[i]}

\* C10, as claimed: whenever all 12 houses are returned their sizes sum to
\* 360, for every assignment of cusp longitudes in [0,360).
C10_SumIs360 ==
    (houseOut.st = "houses" /\ Len(houseOut.houses) = 12) =>
        SumSizes(houseOut.houses) = Circle

\* C10, amended: whenever all 12 houses are returned their sizes sum to 360
\* times the number of houses whose next cusp is smaller than their own
\* cusp; the sum is 360 exactly when there is one such house, that is when
\* the cusps go once round the circle.
C10_SumIsCircleTimesWraps ==
    (houseOut.st = "houses" /\ Len(houseOut.houses) = 12) =>
        /\ SumSizes(houseOut.houses) = Circle * Cardinality(Wraps(cuspIn))
        /\ (SumSizes(houseOut.houses) = Circle)
               <=> (Cardinality(Wraps(cuspIn)) = 1)

\* C10 witness: twelve houses whose cusps go once round the circle
C10_Witness ==
    /\ houseOut.st = "houses"
    /\ Len(houseOut.houses) = 12
    /\ Cardinality(Wraps(cuspIn)) = 1
    /\ SumSizes(houseOut.houses) = Circle

\* a point model whose longitude lies in [0,360)
WellFormed(x) == IsPointModel(x) /\ x.abs_pos >= 0 /\ x.abs_pos < Circle

\* the call on the subject returned a chart
ChartReturned == stage.st \in {"chart", "houses"} /\ stage.out.ok

\* house number i's successor round the wheel
NextHouse(i) == IF i = 12 THEN 1 ELSE i + 1

Magnitude(x) == IF x >= 0 THEN x ELSE 0 - x

\* the point name, upper-cased, is a member of the enumeration
NamesBody(name) == \E k \in 1..Len(CelestialBody) : CelestialBody[k] = Upper(name)

\* a library record between two enumerated bodies, all of it readable
BetweenBodies(a) ==
    /\ DOMAIN a = {"p1_name", "p2_name", "aspect", "orbit"}
    /\ NamesBody(a.p1_name)
    /\ NamesBody(a.p2_name)

\* the natal aspect stage ran on the records the finder reported
NatalConverted == ChartReturned /\ subject.instance.natal.ok

\* calculate_transits returned a list
TransitsReturned == stage.st = "transits" /\ stage.out.ok

\* C12: every aspect returned by calculate_birth_chart or by
\* calculate_transits carries the size of the library's signed orb, which is
\* at least 0, and is flagged exact exactly when that orb is at most 1.0
\* degree (natal) or at most 0.1 degree (transit).
C12_OrbIsMagnitudeExactByStage ==
    /\ NatalConverted =>
          LET kept == SelectSeq(subject.instance.natal.relevant_aspects,
                                BetweenBodies)
              aspects == stage.out.chart.aspects
          IN  /\ Len(aspects) = Len(kept)
              /\ \A j \in 1..Len(aspects) :
                    /\ aspects[j].orb >= 0
                    /\ aspects[j].orb = Magnitude(kept[j].orbit)
                    /\ aspects[j].exact <=> (aspects[j].orb <= 100)
    /\ TransitsReturned =>
          LET kept == SelectSeq(subject.found.relevant_aspects,
                                LAMBDA a : /\ BetweenBodies(a)
                                           /\ Magnitude(a.orbit) <= subject.orb)
              aspects == stage.out.aspects
          IN  /\ Len(aspects) = Len(kept)
              /\ \A j \in 1..Len(aspects) :
                    /\ aspects[j].orb >= 0
                    /\ aspects[j].orb = Magnitude(kept[j].orbit)
                    /\ aspects[j].exact <=> (aspects[j].orb <= 10)

\* C12 witness: a natal aspect the library reports with orb -1.0 degree is
\* returned with orb 1.0 and flagged exact, next to one of 1.01 that is not
C12_Witness ==
    /\ NatalConverted
    /\ Len(stage.out.chart.aspects) = 2
    /\ Len(subject.instance.natal.relevant_aspects) = 2
    /\ BetweenBodies(subject.instance.natal.relevant_aspects[1])
    /\ subject.instance.natal.relevant_aspects[1].orbit = 0 - 100
    /\ stage.out.chart.aspects[1].orb = 100
    /\ stage.out.chart.aspects[1].exact
    /\ stage.out.chart.aspects[2].orb = 101
    /\ ~stage.out.chart.aspects[2].exact

\* C13: every aspect calculate_transits returns is between two bodies of
\* the 13-member enumeration and has an orb within the caller's tolerance,
\* whatever records the library reports; the records that break either
\* condition are left out and the others are all returned.
C13_TransitsInEnumerationWithinOrb ==
    TransitsReturned =>
        LET records == subject.found.relevant_aspects
            aspects == stage.out.aspects
        IN  /\ \A j \in 1..Len(aspects) :
                  /\ aspects[j].body1 \in Range(CelestialBody)
                  /\ aspects[j].body2 \in Range(CelestialBody)
                  /\ aspects[j].orb <= subject.orb
            /\ Len(aspects) =
                  Cardinality({k \in 1..Len(records) :
                                  /\ BetweenBodies(records[k])
                                  /\ Magnitude(records[k].orbit) <= subject.orb})

\* C13 witness: of three records, one with a node the enumeration does not
\* name and one beyond the tolerance of 0.1 degree are left out
C13_Witness ==
    /\ TransitsReturned
    /\ subject.orb = 10
    /\ Len(subject.found.relevant_aspects) = 3
    /\ subject.found.relevant_aspects[1].p1_name = "True_Node"
    /\ \A k \in {2, 3} : BetweenBodies(subject.found.relevant_aspects[k])
    /\ subject.found.relevant_aspects[2].orbit = 0 - 11
    /\ subject.found.relevant_aspects[3].orbit = 10
    /\ Len(stage.out.aspects) = 1
    /\ stage.out.aspects[1].orb = 10

\* the call on the subject has ended, with a chart or an exception
CallEnded == stage.st \in {"chart", "houses"}

\* the four angles of the subject are well-formed points
AnglesFine(instance) ==
    /\ WellFormed(instance.ascendant) /\ WellFormed(instance.medium_coeli)
    /\ WellFormed(instance.descendant) /\ WellFormed(instance.imum_coeli)

\* a body attribute whose lookup and conversion succeed
BodyFound(x) == WellFormed(x) /\ "retrograde" \in DOMAIN x

\* the place of a body in the enumeration
BodyIndex(id) == CHOOSE k \in 1..Len(CelestialBody) : CelestialBody[k] = id

\* C14: a body whose point is absent, malformed or fails validation is
\* skipped and the chart is still returned; its bodies are exactly the
\* enumerated bodies whose lookup succeeded, once each, in enumeration
\* order, each with the library's longitude and with latitude, distance and
\* speed 0.
C14_BadBodiesAreSkipped ==
    (CallEnded /\ AnglesFine(subject.instance)) =>
        /\ stage.out.ok
        /\ LET bodies == stage.out.chart.bodies
               attrs == subject.instance.bodies
               found == {k \in 1..Len(CelestialBody) : BodyFound(attrs[k])}
           IN  /\ Len(bodies) = Cardinality(found)
               /\ {bodies[j].id : j \in 1..Len(bodies)}
                      = {CelestialBody[k] : k \in found}
               /\ \A i, j \in 1..Len(bodies) :
                      i < j => BodyIndex(bodies[i].id) < BodyIndex(bodies[j].id)
               /\ \A j \in 1..Len(bodies) :
                      /\ bodies[j].longitude = attrs[BodyIndex(bodies[j].id)].abs_pos
                      /\ bodies[j].latitude = 0
                      /\ bodies[j].distance = 0
                      /\ bodies[j].speed = 0

\* C14 witness: the Sun and Mercury fail position validation; the chart is
\* returned with the other eleven bodies, the Moon first
C14_Witness ==
    /\ CallEnded
    /\ stage.out.ok
    /\ subject.instance.bodies[1] = Point(Circle, FALSE)
    /\ subject.instance.bodies[3] = Point(Circle, FALSE)
    /\ Len(stage.out.chart.bodies) = 11
    /\ stage.out.chart.bodies[1].id = "MOON"
    /\ stage.out.chart.bodies[2].id = "VENUS"

\* the houses of the subject whose cusp is malformed
MalformedCusps(instance) == {i \in 1..12 : ~WellFormed(instance.houses[i])}

\* house number i's predecessor round the wheel
PrevHouse(i) == IF i = 1 THEN 12 ELSE i - 1

\* the call ended on a subject exactly one of whose cusps is malformed
OneMalformedCusp ==
    /\ CallEnded
    /\ AnglesFine(subject.instance)
    /\ Cardinality(MalformedCusps(subject.instance)) = 1

\* the house numbers of a list of houses
HouseNumbers(houses) == {houses[j].number : j \in 1..Len(houses)}

\* C15, as claimed: when exactly one of the twelve cusps is malformed the
\* chart is still returned and its houses are the other eleven.
C15_OnlyThatHouseIsOmitted ==
    OneMalformedCusp =>
        /\ stage.out.ok
        /\ Len(stage.out.chart.houses) = 11
        /\ HouseNumbers(stage.out.chart.houses)
               = (1..12) \ MalformedCusps(subject.instance)

\* C15, amended: when exactly one of the twelve cusps is malformed the
\* chart is still returned; its houses omit that house and the house before
\* it round the wheel, whose next cusp the malformed one is, and are the
\* other ten, in increasing order, each with the library's cusp.
C15_HouseAndPredecessorOmitted ==
    OneMalformedCusp =>
        /\ stage.out.ok
        /\ LET houses == stage.out.chart.houses
               bad == MalformedCusps(subject.instance)
           IN  /\ Len(houses) = 10
               /\ HouseNumbers(houses)
                      = (1..12) \ (bad \cup {PrevHouse(i) : i \in bad})
               /\ \A i, j \in 1..Len(houses) :
                      i < j => houses[i].number < houses[j].number
               /\ \A j \in 1..Len(houses) :
                      houses[j].cusp
                          = subject.instance.houses[houses[j].number].abs_pos

\* C15 witness: the cusp of house 1 is no point; the chart is returned with
\* the houses 2 to 11
C15_Witness ==
    /\ OneMalformedCusp
    /\ stage.out.ok
    /\ subject.instance.houses[1] = NotAPoint
    /\ Len(stage.out.chart.houses) = 10
    /\ stage.out.chart.houses[1].number = 2
    /\ stage.out.chart.houses[10].number = 11

\* the records before the first one whose conversion raises
BeforeFailure(records) ==
    LET failing == {k \in 1..Len(records) :
                       DOMAIN records[k] # {"p1_name", "p2_name", "aspect", "orbit"}}
        first == IF failing = {} THEN Len(records) + 1
                 ELSE CHOOSE k \in failing : \A m \in failing : k <= m
    IN  SubSeq(records, 1, first - 1)

\* C16: a failure of the natal aspect stage never fails the call: with the
\* four angles readable the chart is returned with its angles, bodies and
\* houses, with no aspects when the aspect finder raised and otherwise with
\* the aspects collected before a failing record leading the list; a
\* failure while reading the angles is the one that aborts the call.
C16_AspectFailureIsNotFatal ==
    CallEnded =>
        /\ stage.out.ok <=> AnglesFine(subject.instance)
        /\ stage.out.ok =>
              LET chart == stage.out.chart
                  instance == subject.instance
                  natal == instance.natal
                  before == SelectSeq(BeforeFailure(natal.relevant_aspects),
                                      BetweenBodies)
              IN  /\ chart.angles.ascendant = instance.ascendant.abs_pos
                  /\ chart.angles.midheaven = instance.medium_coeli.abs_pos
                  /\ chart.angles.descendant = instance.descendant.abs_pos
                  /\ chart.angles.imum_coeli = instance.imum_coeli.abs_pos
                  /\ Len(chart.bodies) =
                         Cardinality({k \in 1..Len(CelestialBody) :
                                         BodyFound(instance.bodies[k])})
                  /\ HouseNumbers(chart.houses) =
                         {i \in 1..12 : /\ WellFormed(instance.houses[i])
                                        /\ WellFormed(instance.houses[NextHouse(i)])}
                  /\ ~natal.ok => chart.aspects = <<>>
                  /\ natal.ok =>
                         /\ Len(chart.aspects) >= Len(before)
                         /\ \A j \in 1..Len(before) :
                                /\ chart.aspects[j].type = before[j].aspect
                                /\ chart.aspects[j].orb = Magnitude(before[j].orbit)

\* C16 witness: the aspect finder raised and the chart was returned with
\* twelve houses, eleven bodies and no aspects
C16_Witness ==
    /\ CallEnded
    /\ ~subject.instance.natal.ok
    /\ stage.out.ok
    /\ Len(stage.out.chart.houses) = 12
    /\ Len(stage.out.chart.bodies) = 11
    /\ stage.out.chart.aspects = <<>>

\* the request's normalization succeeds: pytz knows the zone and the UTC
\* instant is a valid DateTime
Normalizes(r) ==
    /\ r.datetime.timezone \in KnownZones
    /\ ShiftedToUtc(r.datetime).year \in MinYear..MaxYear

\* the cache key of the request: the normalized year, month, day and hour
\* and the coordinates
KeyOf(r) ==
    LET n == ShiftedToUtc(r.datetime)
    IN  <<n.year, n.month, n.day, n.hour, r.location.latitude,
          r.location.longitude>>

\* the arguments the subject constructor gets for an instant and a place
ConstructorArgs(dt, location) ==
    [year |-> dt.year, month |-> dt.month, day |-> dt.day, hour |-> dt.hour,
     minute |-> dt.minute, lat |-> location.latitude,
     lng |-> location.longitude, tz_str |-> dt.timezone]

\* C17: a birth-chart call whose key is absent invokes the subject
\* constructor once and stores its result under the key, or stores nothing
\* when the constructor fails; a call whose key is present invokes nothing
\* and reads the angles of the stored subject; no step removes or replaces
\* an entry; calculate_transits builds its subjects itself, also when the
\* natal key is stored, and leaves the cache as it is.
C17_CacheProtocol ==
    [][ /\ \A k \in DOMAIN instances :
              k \in DOMAIN instances' /\ instances'[k] = instances[k]
        /\ (resp'.op \in {"birth-chart", "houses"} /\ ~Normalizes(resp'.req)) =>
              resp'.built = <<>> /\ instances' = instances
        /\ (resp'.op \in {"birth-chart", "houses"} /\ Normalizes(resp'.req)) =>
              LET r == resp'.req
                  key == KeyOf(r)
                  args == ConstructorArgs(ShiftedToUtc(r.datetime), r.location)
              IN  IF key \in DOMAIN instances
                  THEN /\ resp'.built = <<>>
                       /\ instances' = instances
                       /\ resp'.svc.ok
                       /\ resp'.svc.chart.angles.ascendant
                              = LibAscendant(instances[key])
                  ELSE /\ resp'.built = <<args>>
                       /\ resp'.svc.ok =>
                              /\ DOMAIN instances' = DOMAIN instances \cup {key}
                              /\ instances'[key] = args
                       /\ ~resp'.svc.ok => instances' = instances
        /\ resp'.op = "service.calculate_transits" =>
              /\ instances' = instances
              /\ KeyOf([datetime |-> [resp'.req.natal_chart.datetime
                                         EXCEPT !.timezone = "UTC"],
                        location |-> resp'.req.natal_chart.location])
                     \in DOMAIN instances
              /\ Len(resp'.built) >= 1
              /\ resp'.built[1] = ConstructorArgs(resp'.req.natal_chart.datetime,
                                                  resp'.req.natal_chart.location)
        /\ resp'.op \in Unimplemented => instances' = instances
      ]_vars

\* C17 witness: a call answered from the cache without a constructor call,
\* with the subject an earlier call of the same hour stored
C17_Witness ==
    /\ resp.op = "houses"
    /\ resp.svc.ok
    /\ resp.built = <<>>
    /\ resp.req.datetime.minute = 0
    /\ instances[KeyOf(resp.req)].minute = 30
    /\ Cardinality(DOMAIN instances) = 2

C19_NormalizedDateTimeIsValid ==
    (/\ resp.op = "birth-chart"
     /\ DateTimeConstruct(resp.req.datetime) = "ok"
     /\ resp.req.datetime.timezone \in KnownZones) =>
        /\ DateTimeConstruct(ShiftedToUtc(resp.req.datetime)) = "ok"
        /\ ~resp.svc.ok => resp.svc.exc # "ValidationError"

\* what the service returns to a caller
Returned(out) ==
    IF out.ok THEN [ok |-> TRUE, chart |-> out.chart]
    ELSE [ok |-> FALSE, exc |-> out.exc]

\* the cache and the two results when the request first runs to its end on
\* a fresh service before the request second starts
OneAfterTheOther(first, second) ==
    LET a == calculate_birth_chart(<<>>, lib, first.datetime, first.location,
                                   first.house_system)
        b == calculate_birth_chart(a.instances, lib, second.datetime,
                                   second.location, second.house_system)
    IN  [cache |-> b.instances, first |-> Returned(a), second |-> Returned(b)]

\* both requests in flight have been answered and map to one cache key
SameKeyRequestsAnswered ==
    /\ tasks # <<>>
    /\ \A i \in TaskIds : tasks[i].st = "done" /\ Normalizes(tasks[i].req)
    /\ KeyOf(tasks[1].req) = KeyOf(tasks[2].req)

\* C18: two concurrent birth-chart requests of one cache key are harmless:
\* both would store the same subject, and however they are interleaved the
\* final cache and the chart each request gets are those of the two
\* requests run one after the other, in the one order and in the other.
C18_SameKeyRequestsAreHarmless ==
    SameKeyRequestsAnswered =>
        LET r1 == tasks[1].req
            r2 == tasks[2].req
        IN  /\ ConstructorArgs(ShiftedToUtc(r1.datetime), r1.location)
                   = ConstructorArgs(ShiftedToUtc(r2.datetime), r2.location)
            /\ \A ab \in {OneAfterTheOther(r1, r2)} :
                   /\ instances = ab.cache
                   /\ tasks[1].svc = ab.first
                   /\ tasks[2].svc = ab.second
            /\ \A ba \in {OneAfterTheOther(r2, r1)} :
                   /\ instances = ba.cache
                   /\ tasks[1].svc = ba.second
                   /\ tasks[2].svc = ba.first

====
